---- MODULE Spec2Model ----
(***************************************************************************)
(* Model of src/shared/matrix.rs: Matrix<T, R, C>, a fixed-size grid with  *)
(* two text renderings, fmt::Display ("render_full") and fmt::Debug        *)
(* ("render_diagnostic").                                                  *)
(*                                                                         *)
(* A string is a sequence of characters.  A character is a TLA+ string     *)
(* naming one Unicode scalar value: an ASCII character is named by itself, *)
(* any other character by its code point ("U+20AC").  Rust measures a      *)
(* string in two ways and the code uses both: str::len counts UTF-8 bytes  *)
(* (ByteLen), the padding of {:>width$} counts characters (Len).           *)
(***************************************************************************)
EXTENDS Integers, Sequences, FiniteSets, TLC

\* Largest row and column count of the grids explored.
MaxR == 7
MaxC == 9

\* ------------------------------------------------------------ characters

LF == "\n"

\* UTF-8 length of one character, as str::len counts it.
Utf8Len(ch) ==
    CASE ch = "U+00E2" -> 2
      [] ch = "U+20AC" -> 3
      [] ch = "U+00A6" -> 2
      [] ch = "U+00E9" -> 2
      [] OTHER -> 1

\* s.len(): the number of UTF-8 bytes of s.
ByteLen(s) ==
    LET F[i \in 0..Len(s)] == IF i = 0 THEN 0 ELSE F[i - 1] + Utf8Len(s[i])
    IN  F[Len(s)]

SetMax(S) == CHOOSE x \in S : \A y \in S : y <= x

Min(a, b) == IF a <= b THEN a ELSE b

Spaces(n) == [i \in 1..n |-> " "]

\* ------------------------------------------------------------ formatting

Digits == <<"0", "1", "2", "3", "4", "5", "6", "7", "8", "9">>

\* format!("{}", n) for an unsigned integer: its decimal digits.
RECURSIVE FmtNat(_)
FmtNat(n) ==
    IF n < 10 THEN <<Digits[n + 1]>>
    ELSE FmtNat(n \div 10) \o <<Digits[(n % 10) + 1]>>

\* format!("{}", v) for a signed integer.
FmtInt(v) == IF v < 0 THEN <<"-">> \o FmtNat(-v) ELSE FmtNat(v)

\* {:>width$}: s right-aligned in a field of `width` characters; a string that
\* already has `width` characters or more is written as it is.
PadLeft(s, width) ==
    IF Len(s) >= width THEN s ELSE Spaces(width - Len(s)) \o s

\* ------------------------------------------------------------ the grid

\* The element types T explored: a signed integer type and &str.
ElemTypes == {"i64", "str"}

\* The values of T a cell is overwritten with.
Values(T) ==
    IF T = "i64" THEN {0, -12, 123456789}
    ELSE {<<>>, <<"a", " ", "b">>, <<"U+00E9", "U+00E9", "U+00E9", "U+00E9">>}

\* T::default()
DefaultOf(T) == IF T = "i64" THEN 0 ELSE <<>>

VARIABLES
    elemT,   \* the type parameter T
    R,       \* the const parameter R
    C,       \* the const parameter C
    data,    \* data[r][c], r in 0..R-1, c in 0..C-1
    last,    \* the last operation: "new", "set", "full" or "diag"
    out      \* the string the last render produced (<<>> when it was no render)

vars == <<elemT, R, C, data, last, out>>

\* format!("{}", self.data[r][c])
Fmt(v) == IF elemT = "i64" THEN FmtInt(v) ELSE v

\* Matrix::new()
New(T, rows, cols) == [r \in 0..rows - 1 |-> [c \in 0..cols - 1 |-> DefaultOf(T)]]

\* ------------------------------------------------------------ fmt::Display

\* DisplayMaxw with the scan stopped after the first row.
DisplayMaxw_row0(d) ==
    SetMax({0} \cup {ByteLen(Fmt(d[0][c])) : c \in 0..C - 1})

\* DisplayMaxw with `maxw = s.len()` for `maxw = maxw.max(s.len())`: the length
\* of the last cell scanned.
DisplayMaxw_last(d) == ByteLen(Fmt(d[R - 1][C - 1]))

\* The global maximum of s.len() over all R x C cells.
DisplayMaxw(d) ==
    SetMax({0} \cup {ByteLen(Fmt(d[r][c])) : r \in 0..R - 1, c \in 0..C - 1})

\* Columns 0..n-1 of row r: a space before every column but the first, each
\* cell right-aligned to width w.
Cells(d, r, n, w) ==
    LET F[c \in 0..n] ==
            IF c = 0 THEN <<>>
            ELSE F[c - 1] \o (IF c - 1 > 0 THEN <<" ">> ELSE <<>>)
                          \o PadLeft(Fmt(d[r][c - 1]), w)
    IN  F[n]

DisplayRow(d, r, w) == <<"[">> \o Cells(d, r, C, w) \o <<"]", LF>>

DisplayEmpty ==
    FmtNat(R) \o <<"x">> \o FmtNat(C)
        \o <<" ", "M", "a", "t", "r", "i", "x", ":", " ", "[", "]">> \o <<LF>>

DisplayHeader ==
    FmtNat(R) \o <<"x">> \o FmtNat(C)
        \o <<" ", "M", "a", "t", "r", "i", "x", ":">> \o <<LF>>

\* render_full with the degenerate test `R == 0 && C == 0`.
render_full_and(d) ==
    IF R = 0 /\ C = 0 THEN DisplayEmpty
    ELSE LET maxw == DisplayMaxw(d)
             Body[r \in 0..R] ==
                 IF r = 0 THEN <<>> ELSE Body[r - 1] \o DisplayRow(d, r - 1, maxw)
         IN  DisplayHeader \o Body[R]

render_full(d) ==
    IF R = 0 \/ C = 0 THEN DisplayEmpty
    ELSE LET maxw == DisplayMaxw(d)
             Body[r \in 0..R] ==
                 IF r = 0 THEN <<>> ELSE Body[r - 1] \o DisplayRow(d, r - 1, maxw)
         IN  DisplayHeader \o Body[R]

\* ------------------------------------------------------------ fmt::Debug

MAX_R == 6
MAX_C == 8

\* show_r and show_c without the cap.
show_r_nocap == R
show_c_nocap == C

show_r == Min(R, MAX_R)
show_c == Min(C, MAX_C)
\* rows_elided with `R >= MAX_R` for `show_r < R`.
rows_elided_ge == R >= MAX_R

rows_elided == show_r < R
cols_elided == show_c < C

\* The ellipsis literal of the source: the three characters U+00E2 U+20AC
\* U+00A6, seven bytes of UTF-8.
ell == <<"U+00E2", "U+20AC", "U+00A6">>

DebugHeader ==
    <<"M", "a", "t", "r", "i", "x", "<", "_", ",", " ">> \o FmtNat(R)
        \o <<",", " ">> \o FmtNat(C)
        \o <<">", " ", "{", " ", "r", "o", "w", "s", ":", " ">> \o FmtNat(R)
        \o <<",", " ", "c", "o", "l", "s", ":", " ">> \o FmtNat(C)
        \o (IF rows_elided
            THEN <<",", " ", "r", "o", "w", "s", "_", "t", "r", "u", "n", "c", "a", "t", "e", "d">>
            ELSE <<>>)
        \o (IF cols_elided
            THEN <<",", " ", "c", "o", "l", "s", "_", "t", "r", "u", "n", "c", "a", "t", "e", "d">>
            ELSE <<>>)
        \o <<" ", "}">> \o <<LF>>

\* The maximum of s.len() over the shown window, widened to ell.len().
DebugMaxw(d) ==
    SetMax({ByteLen(ell)}
             \cup {ByteLen(Fmt(d[r][c])) : r \in 0..show_r - 1, c \in 0..show_c - 1})

\* ColsSuffix counting all the columns, not the omitted ones.
ColsSuffix_total ==
    IF cols_elided
    THEN <<" ">> \o ell \o <<" ", "(", "+">> \o FmtNat(C)
             \o <<" ", "c", "o", "l", "s", ")">>
    ELSE <<>>

\* " {ell} (+{C - show_c} cols)" when columns are elided.
ColsSuffix ==
    IF cols_elided
    THEN <<" ">> \o ell \o <<" ", "(", "+">> \o FmtNat(C - show_c)
             \o <<" ", "c", "o", "l", "s", ")">>
    ELSE <<>>

DebugRow(d, r, w) ==
    <<"[">> \o Cells(d, r, show_c, w) \o ColsSuffix \o <<"]", LF>>

\* The row that stands for the omitted rows.
SummaryRow(w) ==
    LET F[c \in 0..show_c] ==
            IF c = 0 THEN <<>>
            ELSE F[c - 1] \o (IF c - 1 > 0 THEN <<" ">> ELSE <<>>) \o PadLeft(ell, w)
    IN  <<"[">> \o F[show_c] \o ColsSuffix
            \o <<"]", " ", "(", "+">> \o FmtNat(R - show_r)
            \o <<" ", "r", "o", "w", "s", ")">> \o <<LF>>

\* render_diagnostic with the degenerate test `R == 0 && C == 0`.
render_diagnostic_and(d) ==
    IF R = 0 /\ C = 0 THEN DebugHeader \o <<"[", "]", LF>>
    ELSE LET maxw == DebugMaxw(d)
             Body[r \in 0..show_r] ==
                 IF r = 0 THEN <<>> ELSE Body[r - 1] \o DebugRow(d, r - 1, maxw)
         IN  DebugHeader \o Body[show_r]
                 \o (IF rows_elided THEN SummaryRow(maxw) ELSE <<>>)

render_diagnostic(d) ==
    IF R = 0 \/ C = 0 THEN DebugHeader \o <<"[", "]", LF>>
    ELSE LET maxw == DebugMaxw(d)
             Body[r \in 0..show_r] ==
                 IF r = 0 THEN <<>> ELSE Body[r - 1] \o DebugRow(d, r - 1, maxw)
         IN  DebugHeader \o Body[show_r]
                 \o (IF rows_elided THEN SummaryRow(maxw) ELSE <<>>)

\* ------------------------------------------------------------ the state machine

\* The cells an overwrite addresses: the first and the last row and column.
ProbeRows == {0, R - 1} \cap (0..R - 1)
ProbeCols == {0, C - 1} \cap (0..C - 1)

Init ==
    /\ elemT \in ElemTypes
    /\ R \in 0..MaxR
    /\ C \in 0..MaxC
    /\ data = New(elemT, R, C)
    /\ last = "new"
    /\ out = <<>>

\* (*ptr).data[i][j] = val: a cell is overwritten in place.  A string rendered
\* before the overwrite is dropped.
SetCell ==
    \E i \in ProbeRows, j \in ProbeCols, val \in Values(elemT) :
        /\ data' = [data EXCEPT ![i][j] = val]
        /\ last' = "set"
        /\ out' = <<>>
        /\ UNCHANGED <<elemT, R, C>>

\* RenderFull writing after what the last render left.
RenderFull_append ==
    /\ out' = out \o render_full(data)
    /\ last' = "full"
    /\ UNCHANGED <<elemT, R, C, data>>

\* format!("{}", m)
RenderFull ==
    /\ out' = render_full(data)
    /\ last' = "full"
    /\ UNCHANGED <<elemT, R, C, data>>

\* format!("{:?}", m)
RenderDiagnostic ==
    /\ out' = render_diagnostic(data)
    /\ last' = "diag"
    /\ UNCHANGED <<elemT, R, C, data>>

Next == SetCell \/ RenderFull \/ RenderDiagnostic

Spec == Init /\ [][Next]_vars

\* ------------------------------------------------------------ reading a rendered string

\* The positions of the line terminators of s.
LFs(s) == {i \in 1..Len(s) : s[i] = LF}

\* The k-th smallest element of a set of numbers.
Nth(S, k) == CHOOSE i \in S : Cardinality({j \in S : j <= i}) = k

\* s.lines(): the lines of s without their terminators.
Lines(s) ==
    CHOOSE ls \in {[k \in 1..Cardinality(nl) |->
                       SubSeq(s, IF k = 1 THEN 1 ELSE Nth(nl, k - 1) + 1, Nth(nl, k) - 1)] :
                   nl \in {LFs(s)}} : TRUE

StartsWith(s, p) == Len(s) >= Len(p) /\ SubSeq(s, 1, Len(p)) = p
EndsWith(s, p) == Len(s) >= Len(p) /\ SubSeq(s, Len(s) - Len(p) + 1, Len(s)) = p

\* The positions at which p occurs in s.
Occurrences(s, p) ==
    {i \in 1..Len(s) - Len(p) + 1 : SubSeq(s, i, i + Len(p) - 1) = p}
Contains(s, p) == Occurrences(s, p) # {}

\* s.split(' ').filter(|t| !t.is_empty()): the non-empty tokens of s, in order.
Tokens(s) ==
    LET starts == {i \in 1..Len(s) : s[i] # " " /\ (i = 1 \/ s[i - 1] = " ")}
        Start(k) == CHOOSE i \in starts : Cardinality({j \in starts : j <= i}) = k
        Stop(i) == SetMax({j \in i..Len(s) : \A m \in i..j : s[m] # " "})
    IN  [k \in 1..Cardinality(starts) |-> SubSeq(s, Start(k), Stop(Start(k)))]

\* The text between the first "[" and the last "]" of a line.
Interior(line) ==
    LET open == CHOOSE i \in 1..Len(line) : line[i] = "[" /\ \A j \in 1..i - 1 : line[j] # "["
        close == SetMax({i \in 1..Len(line) : line[i] = "]"})
    IN  SubSeq(line, open + 1, close - 1)

Shape == FmtNat(R) \o <<"x">> \o FmtNat(C)

Degenerate == R = 0 \/ C = 0

\* ------------------------------------------------------------ C1

\* C1 as stated: for R = 0 or C = 0, render_full gives exactly two lines, a
\* header containing "{R}x{C}" and a line that is the literal "[]".
C1_TwoLines ==
    (last = "full" /\ Degenerate) =>
        LET ls == Lines(out)
        IN  /\ Len(ls) = 2
            /\ Contains(ls[1], Shape)
            /\ ls[2] = <<"[", "]">>

\* C1, amended: for R = 0 or C = 0, render_full gives exactly one line,
\* "{R}x{C} Matrix: []": the header and the literal "[]" share it, and there
\* are no data rows.
C1_OneLine ==
    (last = "full" /\ Degenerate) =>
        LET ls == Lines(out)
        IN  /\ Len(ls) = 1
            /\ out[Len(out)] = LF
            /\ ls[1] = Shape \o <<" ", "M", "a", "t", "r", "i", "x", ":", " ", "[", "]">>

C1_Witness == last = "full" /\ R > 0 /\ C = 0

\* ------------------------------------------------------------ C2

Bracketed(line) ==
    /\ Len(line) >= 2
    /\ line[1] = "["
    /\ line[Len(line)] = "]"

\* The display strings of row r, in column order.
RowStrings(r) == [k \in 1..C |-> Fmt(data[r][k - 1])]

\* No cell displays as the empty string or with a space in it.
PlainCells ==
    \A r \in 0..R - 1, c \in 0..C - 1 :
        LET s == Fmt(data[r][c])
        IN  s # <<>> /\ \A i \in 1..Len(s) : s[i] # " "

\* The header, then R bracketed data lines of one length (in characters).
FullLayout ==
    LET ls == Lines(out)
    IN  /\ Len(ls) = R + 1
        /\ ls[1] = Shape \o <<" ", "M", "a", "t", "r", "i", "x", ":">>
        /\ \A k \in 2..R + 1 : Bracketed(ls[k]) /\ Len(ls[k]) = Len(ls[2])

\* The tokens of every data line are the row's C display strings.
FullTokens ==
    LET ls == Lines(out)
    IN  \A k \in 2..R + 1 :
            Tokens(SubSeq(ls[k], 2, Len(ls[k]) - 1)) = RowStrings(k - 2)

\* C2 as stated: for R >= 1 and C >= 1, render_full gives the header and R data
\* lines of one length, and every data line splits on spaces into exactly C
\* non-empty tokens, one per column in column order.
C2_AnyGrid ==
    (last = "full" /\ ~Degenerate) => (FullLayout /\ FullTokens)

\* C2, amended: for R >= 1 and C >= 1, render_full gives the header and R data
\* lines with the same number of characters; when no cell displays as the
\* empty string or with a space in it, every data line splits on spaces into
\* exactly C non-empty tokens, the row's display strings in column order.
C2_PlainGrid ==
    (last = "full" /\ ~Degenerate) =>
        (FullLayout /\ (PlainCells => FullTokens))

C2_Witness ==
    /\ last = "full"
    /\ R >= 2
    /\ C >= 2
    /\ PlainCells
    /\ ByteLen(Fmt(data[0][0])) < ByteLen(Fmt(data[R - 1][C - 1]))
    /\ ByteLen(Fmt(data[0][C - 1])) < ByteLen(Fmt(data[0][0]))

\* ------------------------------------------------------------ C3

RowsFlag == <<",", " ", "r", "o", "w", "s", "_", "t", "r", "u", "n", "c", "a", "t", "e", "d">>
ColsFlag == <<",", " ", "c", "o", "l", "s", "_", "t", "r", "u", "n", "c", "a", "t", "e", "d">>

\* C3: the header of render_diagnostic contains ", rows_truncated" exactly when
\* R > 6 and ", cols_truncated" exactly when C > 8, each whatever the other is,
\* and rows_truncated comes first when both are there.
C3_HeaderFlags ==
    (last = "diag") =>
        LET h == Lines(out)[1]
            rt == Occurrences(h, RowsFlag)
            ct == Occurrences(h, ColsFlag)
        IN  /\ (rt # {}) <=> (R > 6)
            /\ (ct # {}) <=> (C > 8)
            /\ \A i \in rt, j \in ct : i < j

C3_Witness ==
    /\ last = "diag"
    /\ R > 6
    /\ C > 8
    /\ Contains(out, RowsFlag \o ColsFlag)

\* ------------------------------------------------------------ C4 .. C7

\* s stands right-aligned in field: spaces, then s.
RightAligned(field, s) ==
    /\ EndsWith(field, s)
    /\ \A i \in 1..Len(field) - Len(s) : field[i] = " "

\* " {ell} (+" opens the column-omission suffix of a row.
ColsMark == <<" ">> \o ell \o <<" ", "(", "+">>

ColsTail(n) == ColsMark \o FmtNat(n) \o <<" ", "c", "o", "l", "s", ")">>

RowsTail(n) == <<"]", " ", "(", "+">> \o FmtNat(n) \o <<" ", "r", "o", "w", "s", ")">>

ColsWord == <<" ", "c", "o", "l", "s", ")">>
RowsWord == <<" ", "r", "o", "w", "s", ")">>

\* The cells of a body line: its interior up to the column-omission suffix.
CellsPart(line) ==
    LET inner == Interior(line)
        at == Occurrences(inner, ColsMark)
    IN  IF at = {} THEN inner ELSE SubSeq(inner, 1, SetMax(at) - 1)

\* part is n fields of one width with a single space between them.
IsFields(part, n) ==
    /\ (Len(part) + 1) % n = 0
    /\ LET w == (Len(part) + 1) \div n - 1
       IN  \A j \in 1..n - 1 : part[j * (w + 1)] = " "

Field(part, n, j) ==
    LET w == (Len(part) + 1) \div n - 1
    IN  SubSeq(part, (j - 1) * (w + 1) + 1, (j - 1) * (w + 1) + w)

\* line shows the first n cells of row r, right-aligned, in column order.
ShowsRow(line, r, n) ==
    LET part == CellsPart(line)
    IN  /\ IsFields(part, n)
        /\ \A j \in 1..n : RightAligned(Field(part, n, j), Fmt(data[r][j - 1]))

\* line shows n placeholders, right-aligned.
ShowsPlaceholders(line, n) ==
    LET part == CellsPart(line)
    IN  /\ IsFields(part, n)
        /\ \A j \in 1..n : RightAligned(Field(part, n, j), ell)

\* C4: for R >= 1 and C >= 1 the body of render_diagnostic is the rows
\* 0..min(R, 6) in order, then one summary row exactly when R > 6; the summary
\* row is the last line and ends with "] (+{R - 6} rows)"; no other line, and
\* no line at all when R <= 6, carries a "(+N rows)" suffix.
C4_BodyRows ==
    (last = "diag" /\ ~Degenerate) =>
        LET ls == Lines(out)
            shown == Min(R, 6)
        IN  /\ Len(ls) = 1 + shown + (IF R > 6 THEN 1 ELSE 0)
            /\ \A r \in 0..shown - 1 :
                   /\ Bracketed(ls[r + 2])
                   /\ ShowsRow(ls[r + 2], r, Min(C, 8))
                   /\ ~Contains(ls[r + 2], RowsWord)
            /\ ~Contains(ls[1], RowsWord)
            /\ (R > 6) =>
                   /\ ls[Len(ls)][1] = "["
                   /\ EndsWith(ls[Len(ls)], RowsTail(R - 6))

C4_Witness ==
    /\ last = "diag"
    /\ R > 6
    /\ C >= 2
    /\ data[R - 1][0] # data[0][0]
    /\ data[0][0] # data[1][0]

\* C5: for R >= 1 and C >= 1 every body row of render_diagnostic, the summary
\* row included, holds exactly min(C, 8) padded cells; it carries
\* " {ell} (+{C - 8} cols)" right before its closing "]" exactly when C > 8, and
\* no row carries a "(+N cols)" suffix when C <= 8.
C5_BodyCols ==
    (last = "diag" /\ ~Degenerate) =>
        LET ls == Lines(out)
        IN  \A k \in 2..Len(ls) :
                /\ IsFields(CellsPart(ls[k]), Min(C, 8))
                /\ (elemT = "i64") => Len(Tokens(CellsPart(ls[k]))) = Min(C, 8)
                /\ (C > 8) =>
                       /\ EndsWith(Interior(ls[k]), ColsTail(C - 8))
                       /\ Interior(ls[k]) = CellsPart(ls[k]) \o ColsTail(C - 8)
                /\ (C <= 8) => ~Contains(ls[k], ColsWord)

C5_Witness ==
    /\ last = "diag"
    /\ R > 6
    /\ C > 8
    /\ EndsWith(Lines(out)[2], ColsTail(C - 8) \o <<"]">>)
    /\ Contains(Lines(out)[Min(R, 6) + 2], ColsTail(C - 8) \o RowsTail(R - 6))

C7_DegenerateDiag ==
    (last = "diag" /\ Degenerate) =>
        LET ls == Lines(out)
        IN  /\ Len(ls) = 2
            /\ StartsWith(ls[1],
                   <<"M", "a", "t", "r", "i", "x", "<", "_", ",", " ">> \o FmtNat(R)
                       \o <<",", " ">> \o FmtNat(C)
                       \o <<">", " ", "{", " ", "r", "o", "w", "s", ":", " ">> \o FmtNat(R)
                       \o <<",", " ", "c", "o", "l", "s", ":", " ">> \o FmtNat(C))
            /\ EndsWith(ls[1], <<" ", "}">>)
            /\ ls[2] = <<"[", "]">>
            /\ \A i \in 1..Len(out) : \A e \in 1..Len(ell) : out[i] # ell[e]
            /\ ~Contains(out, <<"(", "+">>)
            /\ ~Contains(out, ColsWord)
            /\ ~Contains(out, RowsWord)

C7_Witness ==
    /\ last = "diag"
    /\ R > 6
    /\ C = 0
    /\ Contains(out, RowsFlag)

\* ------------------------------------------------------------ C8

\* The width of a cell as the output shows it: the data lines are n fields of
\* one width with single spaces between them.
FullCellWidth(text) == (Len(Interior(Lines(text)[2])) + 1) \div C - 1
DiagCellWidth(text) == (Len(CellsPart(Lines(text)[2])) + 1) \div Min(C, 8) - 1

\* Lines from..to of text have one length.
Aligned(text, from, to) ==
    \E ls \in {Lines(text)} : \A k \in from..to : Len(ls[k]) = Len(ls[from])

\* C8: when an overwrite makes one cell's display string longer (s.len(), the
\* length maxw is taken over) and leaves the others alone, the cell width of
\* the render of the new grid is no smaller than that of the old grid, and the
\* data rows of the new output have one length; so for render_full and for
\* the shown rows of render_diagnostic, the changed cell inside the shown
\* window or not.
C8_Monotone ==
    [][\A i \in 0..R - 1, j \in 0..C - 1 :
           (/\ data'[i][j] # data[i][j]
            /\ ByteLen(Fmt(data'[i][j])) > ByteLen(Fmt(data[i][j]))) =>
               \E fullOld \in {render_full(data)}, fullNew \in {render_full(data')},
                  diagOld \in {render_diagnostic(data)},
                  diagNew \in {render_diagnostic(data')} :
                   /\ FullCellWidth(fullNew) >= FullCellWidth(fullOld)
                   /\ DiagCellWidth(diagNew) >= DiagCellWidth(diagOld)
                   /\ Aligned(fullNew, 2, R + 1)
                   /\ Aligned(diagNew, 2, Min(R, 6) + 1)]_vars

\* An overwrite has made the last cell, outside the shown window, longer than
\* every other cell.
C8_Witness ==
    /\ last = "set"
    /\ R > 6
    /\ C > 8
    /\ \A i \in 0..R - 1, j \in 0..C - 1 :
           (i # R - 1 \/ j # C - 1) =>
               /\ data[i][j] = DefaultOf(elemT)
               /\ ByteLen(Fmt(data[i][j])) < ByteLen(Fmt(data[R - 1][C - 1]))

\* ------------------------------------------------------------ C9

\* C9: a render leaves every cell and the shape as they were; rendering again
\* with no overwrite in between gives the same string; and what a render
\* gives is the rendering of the grid as it is, whatever was rendered before.
C9_Pure ==
    [][(last' \in {"full", "diag"}) =>
           /\ data' = data
           /\ <<elemT', R', C'>> = <<elemT, R, C>>
           /\ (last' = last) => (out' = out)
           /\ (last' = "full") => (out' = render_full(data))
           /\ (last' = "diag") => (out' = render_diagnostic(data))]_vars

C9_Witness ==
    /\ last = "diag"
    /\ ~Degenerate
    /\ data[0][0] # DefaultOf(elemT)
    /\ out = render_diagnostic(data)
    /\ out # render_diagnostic(New(elemT, R, C))

\* ------------------------------------------------------------ C10

\* The cells outside the shown window that an overwrite addresses.
OutsideWindow ==
    {<<i, j>> \in ProbeRows \X ProbeCols : i >= Min(R, 6) \/ j >= Min(C, 8)}

\* No overwrite outside the shown window changes render_diagnostic.
WindowOnly ==
    \A p \in OutsideWindow, val \in Values(elemT) :
        render_diagnostic([data EXCEPT ![p[1]][p[2]] = val]) = out

\* Every shown row and the summary row are fields of one width w, the cells
\* and the placeholders right-aligned in them.
DiagFields(w) ==
    LET ls == Lines(out)
    IN  /\ \A r \in 0..Min(R, 6) - 1 :
               /\ ShowsRow(ls[r + 2], r, Min(C, 8))
               /\ Len(CellsPart(ls[r + 2])) + 1 = Min(C, 8) * (w + 1)
        /\ (R > 6) =>
               /\ ShowsPlaceholders(ls[Len(ls)], Min(C, 8))
               /\ Len(CellsPart(ls[Len(ls)])) + 1 = Min(C, 8) * (w + 1)

\* C10: for R >= 1 and C >= 1 the cell width of render_diagnostic is the
\* larger of the longest display string of the shown window and the display
\* length of the ellipsis marker, one symbol (1); every shown cell and every
\* placeholder is right-aligned to that width; cells outside the window do not
\* change the output.
C10_WidthOneSymbol ==
    (last = "diag" /\ ~Degenerate) =>
        LET w == SetMax({1} \cup {ByteLen(Fmt(data[r][c])) :
                                      r \in 0..Min(R, 6) - 1, c \in 0..Min(C, 8) - 1})
        IN  DiagFields(w) /\ WindowOnly

\* What the code does instead: the width is never below ell.len(), the seven
\* bytes of the source's literal.
C10_WidthByteLen ==
    (last = "diag" /\ ~Degenerate) =>
        LET w == SetMax({7} \cup {ByteLen(Fmt(data[r][c])) :
                                      r \in 0..Min(R, 6) - 1, c \in 0..Min(C, 8) - 1})
        IN  DiagFields(w) /\ WindowOnly

====
